---- MODULE Spec2Model ----
(***************************************************************************)
(* Model of scripts/braintrust_analyze.py: the LLM-as-judge pipeline       *)
(* (llm_judge and its wrappers) and the trace budgeting of                 *)
(* learn_from_session.                                                     *)
(*                                                                         *)
(* A Python str is a sequence of one-character strings.  A parsed JSON     *)
(* value is a pair <<tag, payload>>:                                       *)
(*   <<"s", chars>>  string        <<"n", digits>>  number                 *)
(*   <<"a", values>> list          <<"o", f>>       dict, f: key -> value  *)
(*   <<"None", <<>>>>  None (JSON null, and dict.get's default)            *)
(***************************************************************************)
EXTENDS Integers, Sequences, FiniteSets, TLC

VARIABLES
    pc,             \* position of the running call
    caller,         \* the judge operation that was invoked
    api_key,        \* os.environ BRAINTRUST_API_KEY is set and non-empty
    db_exists,      \* Path(db).exists() in judge_plan_with_context
    resp,           \* the HTTP response (or transport failure) of session.post
    response_text,  \* local of llm_judge: the completion text, then the working text
    finish_reason,  \* local of llm_judge
    result,         \* the value returned by the running function
    raised,         \* an exception escaped the running function
    requests,       \* POSTs issued to the completion endpoint
    decoded,        \* the JSON extraction step (lines 799-829) ran on the text
    lrn,            \* state of learn_from_session
    sent,           \* the bodies POSTed to the completion endpoint by llm_judge
    mn              \* state of main

vars == <<pc, caller, api_key, db_exists, resp, response_text, finish_reason,
          result, raised, requests, decoded, lrn, sent, mn>>

judgeVars == <<pc, caller, api_key, db_exists, resp, response_text, finish_reason,
               result, raised, requests, decoded, sent>>

\* everything but the state of learn_from_session
notLearnVars == <<judgeVars, mn>>

-----------------------------------------------------------------------------
(* Bounds of the model *)

\* Fragments concatenated inside the envelope of a completion text.
MaxFrags == 2

-----------------------------------------------------------------------------
(* Text helpers: Python str operations on character sequences *)

Min(a, b) == IF a < b THEN a ELSE b
Max(a, b) == IF a > b THEN a ELSE b

\* text[:n]
Take(text, n) == SubSeq(text, 1, Min(n, Len(text)))

\* str.isspace for the characters of the model's alphabet
IsSpace(c) == c \in {" ", "\n"}

\* first index >= i of a non-whitespace character, Len(text)+1 when none
RECURSIVE SkipWs(_, _)
SkipWs(text, i) ==
    IF i > Len(text) THEN Len(text) + 1
    ELSE IF IsSpace(text[i]) THEN SkipWs(text, i + 1) ELSE i

\* last index <= i of a non-whitespace character, 0 when none
RECURSIVE SkipWsBack(_, _)
SkipWsBack(text, i) ==
    IF i < 1 THEN 0
    ELSE IF IsSpace(text[i]) THEN SkipWsBack(text, i - 1) ELSE i

\* str.strip()
Strip(text) == SubSeq(text, SkipWs(text, 1), SkipWsBack(text, Len(text)))

\* the least index of a non-empty set of indices
FirstOf(S) == CHOOSE j \in S : \A k \in S : j <= k

\* str.find(c, from): first index >= i holding character c, 0 when none
FindChar(text, c, i) ==
    LET S == {j \in i..Len(text) : text[j] = c}
    IN  IF S = {} THEN 0 ELSE FirstOf(S)

\* The backquote character (a string literal of the module cannot hold one).
Backtick == "bq"

\* first index >= i where three backquotes start, 0 when none
FindFence(text, i) ==
    LET S == {j \in i..(Len(text) - 2) :
                text[j] = Backtick /\ text[j + 1] = Backtick /\ text[j + 2] = Backtick}
    IN  IF S = {} THEN 0 ELSE FirstOf(S)

\* re.IGNORECASE match of the literal "json" at index i
IsJsonTag(text, i) ==
    /\ i + 3 <= Len(text)
    /\ text[i] \in {"j", "J"}
    /\ text[i + 1] \in {"s", "S"}
    /\ text[i + 2] \in {"o", "O"}
    /\ text[i + 3] \in {"n", "N"}

-----------------------------------------------------------------------------
(* json.loads on the model's alphabet: objects, lists, strings without     *)
(* escapes, unsigned integers and null; whitespace between tokens.  The    *)
(* scanner calls itself once per nested value and raises RecursionError,   *)
(* not json.JSONDecodeError, when the nesting passes the interpreter's     *)
(* recursion limit.                                                        *)

None == <<"None", <<>>>>
JStr(chars) == <<"s", chars>>
JNum(digits) == <<"n", digits>>
JArr(values) == <<"a", values>>
\* a dict: its values by key, and its keys in insertion order
JObj(f, keys) == <<"o", f, keys>>
EmptyDict == [k \in {} |-> None]
EmptyObj == JObj(EmptyDict, <<>>)

Digits == {"0", "1", "2", "3", "4", "5", "6", "7", "8", "9"}

\* exc names the exception json.loads leaves with, "" when it returns
Failed == [ok |-> FALSE, v |-> None, n |-> 0, exc |-> "JSONDecodeError"]
TooDeep == [ok |-> FALSE, v |-> None, n |-> 0, exc |-> "RecursionError"]
Parsed(v, n) == [ok |-> TRUE, v |-> v, n |-> n, exc |-> ""]

\* sys.getrecursionlimit() of the interpreter that runs line 820 (CPython's
\* default; the frames of the callers only lower the depth json can reach)
RecursionLimit == 1000

\* how many '[' stand in a row from index i on
OpenRun(text, i) ==
    LET S == {j \in i..Len(text) : text[j] # "["}
    IN  IF S = {} THEN Len(text) + 1 - i ELSE FirstOf(S) - i

\* index of the quote closing the string opened before i, 0 when the string
\* is unterminated or holds a control character (json is strict about those)
RECURSIVE StringEnd(_, _)
StringEnd(text, i) ==
    IF i > Len(text) THEN 0
    ELSE IF text[i] = "\"" THEN i
    ELSE IF text[i] = "\n" THEN 0
    ELSE StringEnd(text, i + 1)

\* a string literal starting at i
ParseString(text, i) ==
    IF i > Len(text) \/ text[i] # "\"" THEN Failed
    ELSE LET e == StringEnd(text, i + 1)
         IN  IF e = 0 THEN Failed
             ELSE Parsed(JStr(SubSeq(text, i + 1, e - 1)), e + 1)

\* index after the run of digits starting at i
RECURSIVE DigitsEnd(_, _)
DigitsEnd(text, i) ==
    IF i <= Len(text) /\ text[i] \in Digits THEN DigitsEnd(text, i + 1) ELSE i

\* an unsigned integer starting at i: 0, or a run of digits not led by 0
ParseNumber(text, i) ==
    LET e == IF text[i] = "0" THEN i + 1 ELSE DigitsEnd(text, i)
    IN  Parsed(JNum(SubSeq(text, i, e - 1)), e)

IsNullAt(text, i) ==
    /\ i + 3 <= Len(text)
    /\ SubSeq(text, i, i + 3) = <<"n", "u", "l", "l">>

RECURSIVE ParseValue(_, _, _), ParseMembers(_, _, _, _), ParseElements(_, _, _, _)

\* the members of an object at nesting depth, from index i on (i is at a
\* key), after acc
ParseMembers(text, i, depth, acc) ==
    LET k == ParseString(text, i)
        c == SkipWs(text, k.n)
    IN  IF ~k.ok \/ c > Len(text) \/ text[c] # ":" THEN Failed
        ELSE LET v == ParseValue(text, SkipWs(text, c + 1), depth + 1)
                 d == SkipWs(text, v.n)
                 \* a repeated key keeps its place and takes the last value
                 now == JObj([x \in DOMAIN acc[2] \cup {k.v[2]} |->
                                 IF x = k.v[2] THEN v.v ELSE acc[2][x]],
                             IF k.v[2] \in DOMAIN acc[2] THEN acc[3]
                             ELSE Append(acc[3], k.v[2]))
             IN  IF ~v.ok THEN v
                 ELSE IF d > Len(text) THEN Failed
                 ELSE IF text[d] = "}" THEN Parsed(now, d + 1)
                 ELSE IF text[d] = ","
                      THEN ParseMembers(text, SkipWs(text, d + 1), depth, now)
                 ELSE Failed

\* the elements of a list at nesting depth, from index i on (i is at a
\* value), after acc
ParseElements(text, i, depth, acc) ==
    LET v == ParseValue(text, i, depth + 1)
        d == SkipWs(text, v.n)
    IN  IF ~v.ok THEN v
        ELSE IF d > Len(text) THEN Failed
        ELSE IF text[d] = "]" THEN Parsed(JArr(Append(acc, v.v)), d + 1)
        ELSE IF text[d] = ","
             THEN ParseElements(text, SkipWs(text, d + 1), depth, Append(acc, v.v))
        ELSE Failed

\* a JSON value starting at index i, depth values deep (1: the top one).
\* A run of '[' is a run of nested lists: when the innermost of them lies
\* beyond the recursion limit the scan fails there, whatever follows.
ParseValue(text, i, depth) ==
    IF depth > RecursionLimit THEN TooDeep
    ELSE IF i > Len(text) THEN Failed
    ELSE IF text[i] = "{" THEN
        LET j == SkipWs(text, i + 1)
        IN  IF j <= Len(text) /\ text[j] = "}" THEN Parsed(EmptyObj, j + 1)
            ELSE ParseMembers(text, j, depth, EmptyObj)
    ELSE IF text[i] = "[" THEN
        LET j == SkipWs(text, i + 1)
        IN  IF j <= Len(text) /\ text[j] = "]" THEN Parsed(JArr(<<>>), j + 1)
            ELSE IF j <= Len(text) /\ text[j] = "["
                    /\ depth + OpenRun(text, i) - 1 > RecursionLimit THEN TooDeep
            ELSE ParseElements(text, j, depth, <<>>)
    ELSE IF text[i] = "\"" THEN ParseString(text, i)
    ELSE IF text[i] \in Digits THEN ParseNumber(text, i)
    ELSE IF IsNullAt(text, i) THEN Parsed(None, i + 4)
    ELSE Failed

\* json.loads(text): ok is FALSE where it raises, exc then names the exception
json_loads(text) ==
    LET r == ParseValue(text, SkipWs(text, 1), 1)
    IN  IF ~r.ok THEN r
        ELSE IF SkipWs(text, r.n) = Len(text) + 1 THEN r
        ELSE Failed

\* dict.get(key, default) on a parsed object
Get(obj, key, default) ==
    IF key \in DOMAIN obj[2] THEN obj[2][key] ELSE default

-----------------------------------------------------------------------------
(* The Response Decoder of llm_judge (lines 799-829) *)

\* re.search(r'```(?:json)?\s*([\s\S]*?)```', text, re.IGNORECASE): the leftmost
\* fence, its optional tag and the whitespace after it, then the shortest text
\* up to the next fence.  found is FALSE when the pattern matches nowhere.
fence_match(text) ==
    LET open == FindFence(text, 1)
        tag == IF open # 0 /\ IsJsonTag(text, open + 3) THEN open + 7 ELSE open + 3
        from == SkipWs(text, tag)
        close == FindFence(text, from)
    IN  IF open = 0 \/ close = 0 THEN [found |-> FALSE, group |-> <<>>]
        ELSE [found |-> TRUE, group |-> SubSeq(text, from, close - 1)]

\* StripFence that leaves every text as it is
StripFence_Raw(text) == text

\* lines 802-805: the working text
StripFence(text) ==
    IF FindFence(text, 1) # 0 /\ fence_match(text).found
    THEN Strip(fence_match(text).group)
    ELSE text

\* line 807: response_text.find('{'), 0 standing for -1
json_start(text) == FindChar(text, "{", 1)

\* first index >= i holding a brace, 0 when none
NextBrace(text, i) ==
    LET S == {j \in i..Len(text) : text[j] \in {"{", "}"}}
    IN  IF S = {} THEN 0 ELSE FirstOf(S)

\* ScanBraces taking the last closing brace of the text instead of the one
\* that balances the first opening brace
ScanBraces_Last(text, i, brace_count) ==
    LET S == {j \in i..Len(text) : text[j] = "}"}
    IN  IF S = {} THEN 0 ELSE (CHOOSE j \in S : \A k \in S : k <= j) + 1

\* ScanBraces that skips the braces standing inside string literals
RECURSIVE ScanBraces_StringAware(_, _, _)
ScanBraces_StringAware(text, i, brace_count) ==
    LET S == {j \in i..Len(text) :
                /\ text[j] \in {"{", "}"}
                /\ Cardinality({k \in 1..j : text[k] = "\""}) % 2 = 0}
        b == IF S = {} THEN 0 ELSE FirstOf(S)
    IN  IF b = 0 THEN 0
        ELSE IF text[b] = "{" THEN ScanBraces_StringAware(text, b + 1, brace_count + 1)
        ELSE IF brace_count - 1 = 0 THEN b + 1
        ELSE ScanBraces_StringAware(text, b + 1, brace_count - 1)

\* lines 811-818: the scan from index i with brace_count braces open; the
\* index after the brace that closes the first one, 0 when none does.  The
\* loop does nothing on other characters, so the scan steps brace to brace.
RECURSIVE ScanBraces(_, _, _)
ScanBraces(text, i, brace_count) ==
    LET b == NextBrace(text, i)
    IN  IF b = 0 THEN 0
        ELSE IF text[b] = "{" THEN ScanBraces(text, b + 1, brace_count + 1)
        ELSE IF brace_count - 1 = 0 THEN b + 1
        ELSE ScanBraces(text, b + 1, brace_count - 1)

\* lines 809-818: json_end, which stays json_start when the scan never breaks
json_end(text) ==
    LET e == IF json_start(text) = 0 THEN 0 ELSE ScanBraces(text, json_start(text), 0)
    IN  IF e = 0 THEN json_start(text) ELSE e

\* line 820: response_text[json_start:json_end]
Extracted(text) == SubSeq(text, json_start(text), json_end(text) - 1)

K_verdict == <<"v", "e", "r", "d", "i", "c", "t">>
K_gaps == <<"g", "a", "p", "s">>
K_summary == <<"s", "u", "m", "m", "a", "r", "y">>

\* SuccessResult with result.get("gaps") and result.get("summary") left
\* without their defaults
SuccessResult_NoDefaults(obj) ==
    [verdict |-> Get(obj, K_verdict, None),
     gaps    |-> Get(obj, K_gaps, None),
     summary |-> Get(obj, K_summary, None),
     raw     |-> obj]

\* lines 821-826
SuccessResult(obj) ==
    [verdict |-> Get(obj, K_verdict, None),
     gaps    |-> Get(obj, K_gaps, JArr(<<>>)),
     summary |-> Get(obj, K_summary, JStr(<<>>)),
     raw     |-> obj]

\* line 829
SnippetLen == 200
\* ParseErrorResult quoting the whole working text
ParseErrorResult_Unsliced(text) ==
    [verdict |-> None, error |-> <<"Could not parse judge response: ", text>>]

ParseErrorResult(text) ==
    [verdict |-> None,
     error   |-> <<"Could not parse judge response: ", Take(text, SnippetLen)>>]

-----------------------------------------------------------------------------
(* Completion texts: an envelope (prose, fence, tag) around fragments *)

Fence == <<Backtick, Backtick, Backtick>>

F_pass == <<"{", "\"", "v", "e", "r", "d", "i", "c", "t", "\"", ":", "\"", "P", "A", "S", "S", "\"", ",", "\"", "g", "a", "p", "s", "\"", ":", "[", "]", "}">>
F_nested == <<"{", "\"", "a", "\"", ":", " ", "{", "\"", "b", "\"", ":", " ", "1", "}", ",", " ", "\"", "c", "\"", ":", " ", "\"", "x", "\"", "}">>
F_fail == <<"{", "\"", "v", "e", "r", "d", "i", "c", "t", "\"", ":", "\"", "F", "A", "I", "L", "\"", ",", "\"", "s", "u", "m", "m", "a", "r", "y", "\"", ":", "\"", "s", "\"", ",", "\"", "s", "c", "o", "p", "e", "_", "c", "r", "e", "e", "p", "\"", ":", "[", "\"", "x", "\"", "]", "}">>
F_brace_in_string == <<"{", "\"", "a", "\"", ":", "\"", "}", "\"", "}">>
F_open == <<"{">>
F_close == <<"}">>
F_prose == <<" ", "n", "o", " ", "j", "s", "o", "n", " ", "h", "e", "r", "e", " ">>

Frags == {F_pass, F_nested, F_fail, F_brace_in_string, F_open, F_close, F_prose}

RECURSIVE Bodies(_)
Bodies(n) ==
    IF n = 0 THEN {<<>>}
    ELSE Bodies(n - 1) \cup {b \o f : b \in Bodies(n - 1), f \in Frags}

LongProse == [i \in 1..(SnippetLen + 1) |-> "x"]
Leads == {<<>>, LongProse \o <<"H", "e", "r", "e", " ", "i", "s", " ", "t", "h", "e", " ", "r", "e", "s", "u", "l", "t", ":", "\n">>}
Opens == {<<>>, Fence, Fence \o <<"j", "s", "o", "n", "\n">>, Fence \o <<"J", "S", "O", "N">>}
Closes == {<<>>, <<"\n">> \o Fence, <<"\n">> \o Fence \o <<"\n", "T", "h", "a", "n", "k", "s">>}

\* an object whose value opens more lists than the interpreter can descend
\* into, and never closes them
DeepText ==
    <<"{", "\"", "a", "\"", ":">> \o [i \in 1..(RecursionLimit + 100) |-> "["] \o <<"}">>

\* an object that repeats a key: the braces inside its string values are
\* balanced in the text and not in the object it stands for
DupKeyText == <<"{", "\"", "a", "\"", ":", "\"", "{", "\"", ",", "\"", "a", "\"", ":", "\"", "x", "\"", ",", "\"", "b", "\"", ":", "\"", "}", "\"", "}">>

\* an object whose string value opens a brace that nothing closes
OpenValueText == <<"{", "\"", "a", "\"", ":", "\"", "{", "\"", "}">>

\* a PASS object, then a closed fence around prose
ObjectBeforeFence == F_pass \o <<"\n">> \o Fence \o F_prose \o Fence

\* a closed fence around a FAIL object, then a PASS object
ObjectAfterFence == Fence \o <<"j", "s", "o", "n", "\n">> \o F_fail \o <<"\n">> \o Fence \o F_pass

\* a PASS object whose gaps are a string, not a list
GapsStringText == <<"{", "\"", "v", "e", "r", "d", "i", "c", "t", "\"", ":", "\"", "P", "A", "S", "S", "\"", ",", "\"", "g", "a", "p", "s", "\"", ":", "\"", "n", "o", "n", "e", "\"", "}">>

CompletionTexts ==
    {l \o o \o b \o c : l \in Leads, o \in Opens, b \in Bodies(MaxFrags), c \in Closes}
        \cup {DeepText, DupKeyText, OpenValueText,
              ObjectBeforeFence, ObjectAfterFence, GapsStringText}

-----------------------------------------------------------------------------
(* The completion endpoint: what session.post can come back with *)

ErrLen == 100
LongMessage == [i \in 1..(ErrLen + 1) |-> "e"]

\* str(e) of an exception raised by the transport; it may be empty
TransportMessages == {<<>>, <<"C", "a", "n", "n", "o", "t", " ", "c", "o", "n", "n", "e", "c", "t", " ", "t", "o", " ", "h", "o", "s", "t">>, LongMessage}

\* bodies of non-200 answers
ErrorBodies == {<<"U", "n", "a", "u", "t", "h", "o", "r", "i", "z", "e", "d">>, LongMessage}

FinishReasons == {"", "stop", "length"}
Usages == {<<>>, <<"completion_tokens", "16000">>}

NoData == [shape |-> "none", null |-> FALSE, content |-> <<>>,
           finish_reason |-> "", usage |-> <<>>]

\* the request raised inside the try block
Exc(m) == [kind |-> "exception", status |-> 0, text |-> m, data |-> NoData]
\* an answer with a status and a body that is not read as JSON
Http(st, body) == [kind |-> "http", status |-> st, text |-> body, data |-> NoData]
\* a 200 answer whose body resp.json() cannot decode
NotJson == [kind |-> "not_json", status |-> 200, text |-> <<>>, data |-> NoData]
\* a 200 answer with a JSON body of the given shape
Json(shape) ==
    [kind |-> "json", status |-> 200, text |-> <<>>,
     data |-> [NoData EXCEPT !.shape = shape]]
\* a 200 answer with choices[0].message.content, finish_reason and usage
Completion(null, content, fr, u) ==
    [kind |-> "json", status |-> 200, text |-> <<>>,
     data |-> [shape |-> "completion", null |-> null, content |-> content,
               finish_reason |-> fr, usage |-> u]]

\* "list": the body is not a mapping; "no_choices": no choices key;
\* "empty_choices": choices is []; "bad_choice": choices[0] has no message
Shapes == {"list", "no_choices", "empty_choices", "bad_choice"}

Responses ==
    {Exc(m) : m \in TransportMessages}
    \cup {Http(st, b) : st \in {401, 500}, b \in ErrorBodies}
    \cup {NotJson}
    \cup {Json(sh) : sh \in Shapes}
    \cup {Completion(n, <<>>, fr, u) : n \in BOOLEAN, fr \in FinishReasons, u \in Usages}
    \cup {Completion(FALSE, t, "stop", <<>>) : t \in CompletionTexts \ {<<>>}}

-----------------------------------------------------------------------------
(* Results *)

NoResult == [pending |-> TRUE]

\* line 768
NoKeyResult == [verdict |-> None, error |-> <<"BRAINTRUST_API_KEY not set", <<>>>>]
\* line 789
ApiErrorResult(body) == [verdict |-> None, error |-> <<"API error: ", Take(body, ErrLen)>>]
\* line 792
NoChoicesResult(shape) ==
    [verdict |-> None, error |-> <<"No choices in response: ", <<shape>>>>]
\* line 797
TruncatedResult(usage) ==
    [verdict |-> None,
     error |-> <<"Empty response (finish_reason: length). Usage: ", usage>>]
\* ExceptionResult without the except clause: no value is returned
ExceptionResult_Uncaught(message) == [pending |-> TRUE]

\* lines 830-831: str(e)[:100]
ExceptionResult(message) == [verdict |-> None, error |-> <<"", Take(message, ErrLen)>>]
\* str(e) of the RecursionError that json.loads raises
RecursionMessage ==
    <<"m", "a", "x", "i", "m", "u", "m", " ", "r", "e", "c", "u", "r", "s", "i", "o", "n", " ", "d", "e", "p", "t", "h", " ", "e", "x", "c", "e", "e", "d", "e", "d", " ", "w", "h", "i", "l", "e", " ", "d", "e", "c", "o", "d", "i", "n", "g", " ", "a", " ", "J", "S", "O", "N", " ", "a", "r", "r", "a", "y", " ", "f", "r", "o", "m", " ", "a", " ", "u", "n", "i", "c", "o", "d", "e", " ", "s", "t", "r", "i", "n", "g">>

\* lines 807-831 on the working text: the object, or the parse error of line
\* 829, or, for an exception of json.loads that line 827 does not catch, the
\* result of the outer handler
Extract(text) ==
    LET r == json_loads(Extracted(text))
    IN  IF json_start(text) = 0 THEN ParseErrorResult(text)
        ELSE IF r.ok THEN SuccessResult(r.v)
        ELSE IF r.exc = "JSONDecodeError" THEN ParseErrorResult(text)
        ELSE ExceptionResult(RecursionMessage)

\* line 902
NoDbResult == [verdict |-> None, error |-> <<"Context Graph not found: ", <<>>>>]

HasError(r) == "error" \in DOMAIN r

-----------------------------------------------------------------------------
(* The judge operations *)

Callers == {"score_plan", "review_implementation", "judge_plan_with_context"}

\* the named slots of each caller's prompt template
TemplateFields(c) ==
    CASE c = "score_plan" -> {"content"}
      [] c = "review_implementation" -> {"plan_content", "diff_content", "session_summary"}
      [] c = "judge_plan_with_context" ->
             {"plan_content", "succeeded_precedent", "failed_precedent"}

\* the keyword arguments each caller hands to llm_judge
FormatArgs(c) ==
    CASE c = "score_plan" -> {"content"}
      [] c = "review_implementation" -> {"plan_content", "diff_content", "session_summary"}
      [] c = "judge_plan_with_context" ->
             {"plan_content", "succeeded_precedent", "failed_precedent"}

\* what each wrapper adds to the result of llm_judge
WrapperFields(c) ==
    CASE c = "score_plan" -> [scorer |-> "plan_quality"]
      [] c = "review_implementation" -> [scorer |-> "implementation_review"]
      [] c = "judge_plan_with_context" ->
             [scorer |-> "rag_enhanced_judge", precedent_found |-> "counts"]

\* main is not running: the operations are called directly
MainOff ==
    [pc |-> "off", cmd |-> "none", plan_exists |-> FALSE, exit |-> -1,
     reported |-> "", files |-> 0]

JudgeInit ==
    /\ pc = "idle"
    /\ caller = "none"
    /\ api_key = FALSE
    /\ db_exists = FALSE
    /\ resp = Exc(<<>>)
    /\ response_text = <<>>
    /\ finish_reason = ""
    /\ result = NoResult
    /\ raised = FALSE
    /\ requests = 0
    /\ decoded = FALSE
    /\ sent = <<>>

\* a judge operation is called (lines 834, 844, 888)
Invoke ==
    /\ pc = "idle"
    /\ lrn.pc = "off"
    /\ mn.pc = "off"
    /\ \E c \in Callers :
        /\ caller' = c
        /\ pc' = IF c = "judge_plan_with_context" THEN "check_db" ELSE "read_key"
    /\ UNCHANGED <<api_key, db_exists, resp, response_text, finish_reason,
                   result, raised, requests, decoded, lrn, sent, mn>>

\* judge_plan_with_context, lines 900-902: the context graph must exist
CheckDb ==
    /\ pc = "check_db"
    /\ \E e \in BOOLEAN :
        /\ db_exists' = e
        /\ IF e THEN pc' = "precedent" /\ UNCHANGED result
           ELSE pc' = "returned" /\ result' = NoDbResult
    /\ UNCHANGED <<caller, api_key, resp, response_text, finish_reason,
                   raised, requests, decoded, lrn, sent, mn>>

\* judge_plan_with_context, lines 904-944: the precedent queries run outside
\* any try block, so a failing query leaves the function by an exception
QueryPrecedent ==
    /\ pc = "precedent"
    /\ \E ok \in BOOLEAN :
        IF ok THEN pc' = "read_key" /\ UNCHANGED raised
        ELSE pc' = "raised" /\ raised' = TRUE
    /\ UNCHANGED <<caller, api_key, db_exists, resp, response_text, finish_reason,
                   result, requests, decoded, lrn, sent, mn>>

\* llm_judge, lines 766-768; under main, load_api_key has left a non-empty
\* key in the environment
ReadApiKey ==
    /\ pc = "read_key"
    /\ \E k \in (IF mn.pc = "off" THEN BOOLEAN ELSE {TRUE}) :
        /\ api_key' = k
        /\ IF k THEN pc' = "format" /\ UNCHANGED result
           ELSE pc' = "llm_returned" /\ result' = NoKeyResult
    /\ UNCHANGED <<caller, db_exists, resp, response_text, finish_reason,
                   raised, requests, decoded, lrn, sent, mn>>

\* llm_judge, lines 772-773: prompt.format(**format_args), outside the try
\* block; a slot without an argument raises KeyError
FormatPrompt ==
    /\ pc = "format"
    /\ IF TemplateFields(caller) \subseteq FormatArgs(caller)
       THEN pc' = "post" /\ UNCHANGED raised
       ELSE pc' = "raised" /\ raised' = TRUE
    /\ UNCHANGED <<caller, api_key, db_exists, resp, response_text, finish_reason,
                   result, requests, decoded, lrn, sent, mn>>

\* lines 780-785: the sampling parameters of the request
RequestBody == [temperature |-> 0, max_tokens |-> 16000]

\* llm_judge, lines 776-786 and 830-831: the one request
Post ==
    /\ pc = "post"
    /\ requests' = requests + 1
    /\ sent' = Append(sent, RequestBody)
    /\ \E r \in Responses :
        /\ resp' = r
        /\ IF r.kind = "exception"
           THEN pc' = "llm_returned" /\ result' = ExceptionResult(r.text)
           ELSE pc' = "status" /\ UNCHANGED result
    /\ UNCHANGED <<caller, api_key, db_exists, response_text, finish_reason,
                   raised, decoded, lrn, mn>>

\* CheckStatus that sends the request again after a non-200 answer
CheckStatus_Retry ==
    /\ pc = "status"
    /\ pc' = IF resp.status # 200 THEN "post" ELSE "body"
    /\ UNCHANGED <<caller, api_key, db_exists, resp, response_text, finish_reason,
                   result, raised, requests, decoded, lrn, sent, mn>>

\* llm_judge, lines 787-789
CheckStatus ==
    /\ pc = "status"
    /\ IF resp.status # 200
       THEN pc' = "llm_returned" /\ result' = ApiErrorResult(resp.text)
       ELSE pc' = "body" /\ UNCHANGED result
    /\ UNCHANGED <<caller, api_key, db_exists, resp, response_text, finish_reason,
                   raised, requests, decoded, lrn, sent, mn>>

\* the outcome of lines 790-792: resp.json() and data.get("choices")
BodyResult(r) ==
    IF r.kind = "not_json" THEN ExceptionResult(<<"A", "t", "t", "e", "m", "p", "t", " ", "t", "o", " ", "d", "e", "c", "o", "d", "e", " ", "J", "S", "O", "N", " ", "w", "i", "t", "h", " ", "u", "n", "e", "x", "p", "e", "c", "t", "e", "d", " ", "m", "i", "m", "e", "t", "y", "p", "e">>)
    ELSE IF r.data.shape = "list" THEN ExceptionResult(<<"'", "l", "i", "s", "t", "'", " ", "o", "b", "j", "e", "c", "t", " ", "h", "a", "s", " ", "n", "o", " ", "a", "t", "t", "r", "i", "b", "u", "t", "e", " ", "'", "g", "e", "t", "'">>)
    ELSE IF r.data.shape \in {"no_choices", "empty_choices"} THEN NoChoicesResult(r.data.shape)
    ELSE NoResult

\* llm_judge, lines 790-792 and 830-831
ReadBody ==
    /\ pc = "body"
    /\ IF BodyResult(resp) # NoResult
       THEN pc' = "llm_returned" /\ result' = BodyResult(resp)
       ELSE pc' = "choice" /\ UNCHANGED result
    /\ UNCHANGED <<caller, api_key, db_exists, resp, response_text, finish_reason,
                   raised, requests, decoded, lrn, sent, mn>>

\* line 793: data["choices"][0]["message"]["content"] or ""
ContentOrEmpty(d) == IF d.null THEN <<>> ELSE d.content

\* IsTruncated testing the wrong finish reason
IsTruncated_Stop(text, fr) == text = <<>> /\ fr = "stop"

\* line 796: the truncation test
IsTruncated(text, fr) == text = <<>> /\ fr = "length"

\* llm_judge, lines 793-797 and 830-831
ReadChoice ==
    /\ pc = "choice"
    /\ IF resp.data.shape = "bad_choice"
       THEN /\ pc' = "llm_returned"
            /\ result' = ExceptionResult(<<"'", "m", "e", "s", "s", "a", "g", "e", "'">>)
            /\ UNCHANGED <<response_text, finish_reason>>
       ELSE /\ response_text' = ContentOrEmpty(resp.data)
            /\ finish_reason' = resp.data.finish_reason
            /\ IF IsTruncated(ContentOrEmpty(resp.data), resp.data.finish_reason)
               THEN pc' = "llm_returned" /\ result' = TruncatedResult(resp.data.usage)
               ELSE pc' = "strip_fence" /\ UNCHANGED result
    /\ UNCHANGED <<caller, api_key, db_exists, resp, raised, requests, decoded, lrn, sent, mn>>

\* llm_judge, lines 799-805: the working text
StripFences ==
    /\ pc = "strip_fence"
    /\ response_text' = StripFence(response_text)
    /\ decoded' = TRUE
    /\ pc' = "extract"
    /\ UNCHANGED <<caller, api_key, db_exists, resp, finish_reason, result,
                   raised, requests, lrn, sent, mn>>

\* llm_judge, lines 806-829
ExtractJson ==
    /\ pc = "extract"
    /\ result' = Extract(response_text)
    /\ pc' = "llm_returned"
    /\ UNCHANGED <<caller, api_key, db_exists, resp, response_text, finish_reason,
                   raised, requests, decoded, lrn, sent, mn>>

\* the wrapper's lines after llm_judge returned (840-841, 856-857, 953-958)
WrapperReturn ==
    /\ pc = "llm_returned"
    /\ result' = WrapperFields(caller) @@ result
    /\ pc' = "returned"
    /\ UNCHANGED <<caller, api_key, db_exists, resp, response_text, finish_reason,
                   raised, requests, decoded, lrn, sent, mn>>

\* the steps of a judge operation once it is called
PipelineNext ==
    \/ CheckDb
    \/ QueryPrecedent
    \/ ReadApiKey
    \/ FormatPrompt
    \/ Post
    \/ CheckStatus
    \/ ReadBody
    \/ ReadChoice
    \/ StripFences
    \/ ExtractJson
    \/ WrapperReturn

JudgeNext == Invoke \/ PipelineNext


-----------------------------------------------------------------------------
(* learn_from_session: hierarchical context, budget and trace (1044-1271) *)

\* Run-length groups of spans in a fetched session.
MaxGroups == 2
\* Span counts tried by the budget computation taken alone.
MaxSpanCount == 40

TOTAL_CHARS == 800000
RESERVE_CHARS == 100000
MIN_PER_FIELD == 1500
MAX_PER_FIELD == 8000
\* LIMIT 200 of the span query
SpanLimit == 200
\* caps of the hierarchical context
HandoffCap == 20000
GoalCap == 2000
StateCap == 3000
\* len(LEARN_JUDGE_PROMPT.format(formatted_trace=""))
TemplateLen == 373

\* A text is known by its layout: lws whitespace characters, then core
\* characters that start and end with a non-whitespace one, then tws
\* whitespace characters.  none marks None.
Text(lws, core, tws) == [none |-> FALSE, lws |-> lws, core |-> core, tws |-> tws]
NoText == [none |-> TRUE, lws |-> 0, core |-> 0, tws |-> 0]
TextLen(t) == t.lws + t.core + t.tws
\* Python truthiness of a str or None
Truthy(t) == ~t.none /\ TextLen(t) > 0

\* number of decimal digits of n >= 0
RECURSIVE NumDigits(_)
NumDigits(n) == IF n < 10 THEN 1 ELSE 1 + NumDigits(n \div 10)

\* len(f"... [truncated {n} chars]")
MarkerLen(n) == 15 + NumDigits(n) + 7

\* lines 1147-1155 as a function of the span count and the context length
\* AVAILABLE_CHARS that forgets the hierarchical context
AVAILABLE_CHARS_NoContext(hierarchical_chars) == TOTAL_CHARS - RESERVE_CHARS

AVAILABLE_CHARS(hierarchical_chars) == TOTAL_CHARS - RESERVE_CHARS - hierarchical_chars
\* estimated_fields rounding 1.5 * span_count half up instead of down
estimated_fields_HalfUp(span_count) == (3 * span_count + 1) \div 2

\* int(span_count * 1.5)
estimated_fields(span_count) == (3 * span_count) \div 2
\* divisor without max(1, ...)
divisor_NoMax(span_count) == estimated_fields(span_count)

\* line 1154: max(1, estimated_fields)
divisor(span_count) == Max(1, estimated_fields(span_count))
\* line 1154: //, which raises ZeroDivisionError on a zero divisor
DivisionFails(span_count) == divisor(span_count) = 0
raw_budget(span_count, hierarchical_chars) ==
    AVAILABLE_CHARS(hierarchical_chars) \div divisor(span_count)
\* per_field_budget without the floor
per_field_budget_NoFloor(span_count, hierarchical_chars) ==
    Min(MAX_PER_FIELD, raw_budget(span_count, hierarchical_chars))

per_field_budget(span_count, hierarchical_chars) ==
    Max(MIN_PER_FIELD, Min(MAX_PER_FIELD, raw_budget(span_count, hierarchical_chars)))

\* lines 1157-1164: clean(text, max_len).  The result is text[from : from+keep]
\* followed, when elided >= 0, by the marker naming elided characters.
Kept(from, keep, elided) == [from |-> from, keep |-> keep, elided |-> elided]
\* clean whose marker names the characters kept instead of those elided
clean_CountsKept(text, max_len) ==
    IF ~Truthy(text) THEN Kept(0, 0, -1)
    ELSE IF text.core > max_len THEN Kept(text.lws, max_len, max_len)
    ELSE Kept(text.lws, text.core, -1)

\* clean that truncates from max_len characters on (>= for >)
clean_Strict(text, max_len) ==
    IF ~Truthy(text) THEN Kept(0, 0, -1)
    ELSE IF text.core >= max_len THEN Kept(text.lws, max_len, text.core - max_len)
    ELSE Kept(text.lws, text.core, -1)

\* clean that strips and never truncates
clean_Untruncated(text, max_len) ==
    IF ~Truthy(text) THEN Kept(0, 0, -1) ELSE Kept(text.lws, text.core, -1)

clean(text, max_len) ==
    IF ~Truthy(text) THEN Kept(0, 0, -1)
    ELSE IF text.core > max_len THEN Kept(text.lws, max_len, text.core - max_len)
    ELSE Kept(text.lws, text.core, -1)

\* len(clean(text, max_len))
CleanLen(text, max_len) ==
    LET c == clean(text, max_len)
    IN  c.keep + (IF c.elided >= 0 THEN MarkerLen(c.elided) ELSE 0)

\* lines 1105-1135: len("\n".join(hierarchical_lines)).  handoff is the
\* length of the handoff content (0: no handoff or no content); ledger.goal
\* and ledger.state are the lengths of the stripped sections, -1 when the
\* section is not in the ledger.
NoLedger == [present |-> FALSE, goal |-> -1, state |-> -1]
Ledger(goal, state) == [present |-> TRUE, goal |-> goal, state |-> state]
\* HandoffLines without the cap on the handoff content
HandoffLines_Uncapped(handoff) ==
    IF handoff > 0 THEN <<36, 0, handoff, 0, 3, 0>> ELSE <<>>

HandoffLines(handoff) ==
    IF handoff > 0 THEN <<36, 0, Min(handoff, HandoffCap), 0, 3, 0>> ELSE <<>>
LedgerLines(ledger) ==
    IF ledger.present
    THEN <<38, 0>>
         \o (IF ledger.goal >= 0 THEN <<8 + Min(ledger.goal, GoalCap)>> ELSE <<>>)
         \o (IF ledger.state >= 0 THEN <<10 + Min(ledger.state, StateCap)>> ELSE <<>>)
         \o <<0, 3, 0>>
    ELSE <<>>
RECURSIVE SumSeq(_)
SumSeq(q) == IF q = <<>> THEN 0 ELSE Head(q) + SumSeq(Tail(q))
\* len("\n".join(lines)) for the lengths of the lines
JoinLen(lines) == IF lines = <<>> THEN 0 ELSE SumSeq(lines) + Len(lines) - 1
HierarchicalChars(handoff, ledger) == JoinLen(HandoffLines(handoff) \o LedgerLines(ledger))

\* lines 1186-1203: the fields of one span that are placed in the trace
PlacedFields(span) ==
    (IF span.type \in {"llm", "task", "tool"} /\ Truthy(span.input)
     THEN <<span.input>> ELSE <<>>)
    \o (IF span.type \in {"llm", "tool"} /\ Truthy(span.output)
        THEN <<span.output>> ELSE <<>>)

\* what the environment can hold -----------------------------------------

T_short == Text(0, 10, 0)
T_mid == Text(0, 3000, 0)
T_long == Text(0, 9000, 0)
T_padded == Text(2, 9000, 3)
T_blank == Text(4, 0, 0)

Span(type, input, output) == [type |-> type, input |-> input, output |-> output]
SpanKinds ==
    {Span("llm", T_long, T_long), Span("llm", T_mid, NoText),
     Span("task", T_padded, T_long), Span("tool", T_short, T_blank),
     Span("unknown", T_long, T_long), Span("tool", NoText, T_mid)}

\* n consecutive spans of one kind
Group(n, span) == [n |-> n, span |-> span]
Groups == {Group(n, k) : n \in {1, 100}, k \in SpanKinds}

RECURSIVE GroupSeqs(_)
GroupSeqs(n) ==
    IF n = 0 THEN {<<>>}
    ELSE GroupSeqs(n - 1) \cup {Append(q, g) : q \in GroupSeqs(n - 1), g \in Groups}

RECURSIVE SpanCount(_)
SpanCount(groups) ==
    IF groups = <<>> THEN 0 ELSE Head(groups).n + SpanCount(Tail(groups))

\* the rows the span query can return: at most SpanLimit of them
Sessions == {q \in GroupSeqs(MaxGroups) : SpanCount(q) <= SpanLimit}

HandoffContents == {0, 5000, 30000}
Ledgers == {NoLedger, Ledger(-1, -1), Ledger(2500, 3500), Ledger(0, 100)}

LearnOutcomes == {"exception", "status", "no_choices", "empty", "content"}

\* the call ---------------------------------------------------------------

\* the value of a bare return
ReturnedNone == [returned |-> "None"]

\* outcome: how the completion request ended; written: what the learnings
\* file holds; reported: a message about a failure was printed; ret: the
\* value learn_from_session returned
LearnIdle ==
    [pc |-> "off", spans |-> <<>>, hierarchical_chars |-> 0, span_count |-> 0,
     per_field_budget |-> 0, i |-> 0, fields |-> 0, field_chars |-> 0,
     requests |-> 0, files |-> 0, raised |-> FALSE,
     outcome |-> "", written |-> "", reported |-> FALSE, ret |-> NoResult]

\* learn_from_session is called (line 1044)
L_Call ==
    /\ pc = "idle"
    /\ lrn.pc = "off"
    /\ mn.pc = "off"
    /\ lrn' = [lrn EXCEPT !.pc = "start"]
    /\ UNCHANGED notLearnVars

\* a bare return after a printed message
Bail(l) == [l EXCEPT !.pc = "done", !.reported = TRUE, !.ret = ReturnedNone]

\* run_sql (lines 121-140) is called outside any try block: an exception of
\* requests.post or of resp.json() leaves learn_from_session
QueryRaised(l) == [l EXCEPT !.pc = "raised", !.raised = TRUE]

\* lines 1051-1074: the session id is given in full, or the query finds the
\* session, or it finds none, or it raises
L_ResolveSession ==
    /\ lrn.pc = "start"
    /\ \E o \in {"given", "found", "not_found", "raised"} :
        lrn' = CASE o \in {"given", "found"} -> [lrn EXCEPT !.pc = "fetch"]
                 [] o = "not_found" -> Bail(lrn)
                 [] o = "raised" -> QueryRaised(lrn)
    /\ UNCHANGED notLearnVars

\* lines 1077-1092: the rows of the session, none (also after an SQL
\* error), or an exception of the query
L_FetchSpans ==
    /\ lrn.pc = "fetch"
    /\ \/ \E q \in Sessions :
            lrn' = IF q = <<>> THEN Bail(lrn)
                   ELSE [lrn EXCEPT !.spans = q, !.pc = "context"]
       \/ lrn' = QueryRaised(lrn)
    /\ UNCHANGED notLearnVars

\* lines 1094-1136
L_Context ==
    /\ lrn.pc = "context"
    /\ \E h \in HandoffContents, l \in Ledgers :
        lrn' = [lrn EXCEPT !.hierarchical_chars = HierarchicalChars(h, l),
                           !.pc = "budget"]
    /\ UNCHANGED notLearnVars

\* lines 1143-1155
L_Budget ==
    /\ lrn.pc = "budget"
    /\ lrn' = IF DivisionFails(SpanCount(lrn.spans))
              THEN [lrn EXCEPT !.span_count = SpanCount(lrn.spans),
                               !.raised = TRUE, !.pc = "done"]
              ELSE [lrn EXCEPT
                      !.span_count = SpanCount(lrn.spans),
                      !.per_field_budget =
                          per_field_budget(SpanCount(lrn.spans), lrn.hierarchical_chars),
                      !.i = 1,
                      !.pc = "trace"]
    /\ UNCHANGED notLearnVars

\* lines 1168-1205 for the spans of group i: each places its fields, cleaned
L_TraceSpans ==
    /\ lrn.pc = "trace"
    /\ lrn.i <= Len(lrn.spans)
    /\ LET g == lrn.spans[lrn.i]
           placed == PlacedFields(g.span)
           lens == [k \in 1..Len(placed) |-> CleanLen(placed[k], lrn.per_field_budget)]
       IN  lrn' = [lrn EXCEPT !.fields = @ + g.n * Len(placed),
                              !.field_chars = @ + g.n * SumSeq(lens),
                              !.i = @ + 1]
    /\ UNCHANGED notLearnVars

\* lines 1207-1225: the loop is over; the API key is read
L_ReadKey ==
    /\ lrn.pc = "trace"
    /\ lrn.i > Len(lrn.spans)
    /\ \E k \in BOOLEAN :
        lrn' = IF k THEN [lrn EXCEPT !.pc = "post"] ELSE Bail(lrn)
    /\ UNCHANGED notLearnVars

\* learn_from_session as a decoding pipeline: the content goes through the
\* decoder and every failure comes back as an error result
L_Post_Decoded ==
    /\ lrn.pc = "post"
    /\ \E o \in LearnOutcomes :
        lrn' = [lrn EXCEPT !.requests = @ + 1,
                           !.outcome = o,
                           !.files = IF o = "content" THEN @ + 1 ELSE @,
                           !.written = IF o = "content" THEN "decoded" ELSE @,
                           !.reported = FALSE,
                           !.ret = ExceptionResult(<<>>),
                           !.pc = "done"]
    /\ UNCHANGED notLearnVars

\* lines 1227-1271: one request; a 200 answer with a non-empty content is
\* written as it is to the learnings file, anything else is printed as an
\* error; the function returns nothing either way
L_Post ==
    /\ lrn.pc = "post"
    /\ \E o \in LearnOutcomes :
        lrn' = [lrn EXCEPT !.requests = @ + 1,
                           !.outcome = o,
                           !.files = IF o = "content" THEN @ + 1 ELSE @,
                           !.written = IF o = "content" THEN "learnings_content" ELSE @,
                           !.reported = (o # "content"),
                           !.ret = ReturnedNone,
                           !.pc = "done"]
    /\ UNCHANGED notLearnVars

LearnInit == JudgeInit /\ mn = MainOff /\ lrn = [LearnIdle EXCEPT !.pc = "start"]

LearnNext ==
    \/ L_ResolveSession
    \/ L_FetchSpans
    \/ L_Context
    \/ L_Budget
    \/ L_TraceSpans
    \/ L_ReadKey
    \/ L_Post

SpecLearn == LearnInit /\ [][LearnNext]_vars

\* the budget computation taken alone, on any span count and context length
SpanCounts == 0..MaxSpanCount \cup {101, 200, 466, 467, 1000}
ContextLengths == {0, 5000, 25110, 650000, 700000, 700001, 900000}

BudgetInit ==
    /\ JudgeInit
    /\ mn = MainOff
    /\ \E n \in SpanCounts, h \in ContextLengths :
        lrn = [LearnIdle EXCEPT !.pc = "plan", !.span_count = n,
                                !.hierarchical_chars = h]

\* lines 1145-1155
PlanBudget ==
    /\ lrn.pc = "plan"
    /\ lrn' = IF DivisionFails(lrn.span_count)
              THEN [lrn EXCEPT !.raised = TRUE, !.pc = "done"]
              ELSE [lrn EXCEPT
                      !.per_field_budget = per_field_budget(lrn.span_count,
                                                            lrn.hierarchical_chars),
                      !.pc = "planned"]
    /\ UNCHANGED notLearnVars

BudgetNext == PlanBudget

SpecBudget == BudgetInit /\ [][BudgetNext]_vars

\* clean taken alone, on texts around the budget -------------------------

\* Whitespace tried on either side of a text.
MaxPad == 2
\* How far the text lengths tried lie from the budget, either way.
MaxOver == 3

\* budgets the computation of lines 1154-1155 can give
CleanBudgets == {MIN_PER_FIELD, 4666, MAX_PER_FIELD}
\* a text of whitespace only is all leading whitespace
CleanTexts(max_len) ==
    {NoText}
    \cup {Text(l, 0, 0) : l \in 0..MaxPad}
    \cup {Text(l, c, t) : l \in 0..MaxPad, t \in 0..MaxPad,
                           c \in {1} \cup {max_len + d : d \in (0 - MaxOver)..MaxOver}}

CleanInit ==
    /\ JudgeInit
    /\ mn = MainOff
    /\ \E b \in CleanBudgets : \E t \in CleanTexts(b) :
        lrn = [pc |-> "clean", text |-> t, max_len |-> b, cleaned |-> Kept(0, 0, -1)]

\* lines 1157-1164: one call of clean
CallClean ==
    /\ lrn.pc = "clean"
    /\ lrn' = [lrn EXCEPT !.cleaned = clean(lrn.text, lrn.max_len), !.pc = "cleaned"]
    /\ UNCHANGED notLearnVars

CleanNext == CallClean

SpecClean == CleanInit /\ [][CleanNext]_vars

\* the judge operations
Init == JudgeInit /\ lrn = LearnIdle /\ mn = MainOff

Next == JudgeNext

Spec == Init /\ [][Next]_vars

\* the four operations, one call of one of them
OpsNext == JudgeNext \/ L_Call \/ LearnNext

SpecOps == Init /\ [][OpsNext]_vars

V_PASS == JStr(<<"P", "A", "S", "S">>)
V_FAIL == JStr(<<"F", "A", "I", "L">>)

------------------------------------------------------------------------------
(* main, the --review and --rag-judge commands (lines 1314-1453) *)

ReviewCommands == {"review", "rag_judge"}

\* the plan path given on the command line
PlanPath == <<"p", "l", "a", "n", ".", "m", "d">>

K_requirement == <<"r", "e", "q", "u", "i", "r", "e", "m", "e", "n", "t">>
K_scope_creep == <<"s", "c", "o", "p", "e", "_", "c", "r", "e", "e", "p">>
K_insights == <<"i", "n", "s", "i", "g", "h", "t", "s">>

\* line 997: what run_implementation_review returns for a missing plan,
\* here with an empty message
PlanNotFoundResult_Empty == [error |-> <<"", <<>>>>]

\* line 997
PlanNotFoundResult == [error |-> <<"Plan not found: ", PlanPath>>]

\* truthiness of a parsed JSON value
JTruthy(v) ==
    CASE v[1] = "None" -> FALSE
      [] v[1] = "s" -> v[2] # <<>>
      [] v[1] = "n" -> v[2] # <<"0">>
      [] v[1] = "a" -> v[2] # <<>>
      [] v[1] = "o" -> DOMAIN v[2] # {}

\* iter(v) works
Iterable(v) == v[1] \in {"s", "a", "o"}

\* g.get(...) and g.get("requirement", "unknown")[:80] work on every g of
\* gaps: each g is a dict whose requirement can be sliced
GapsPrintable(gaps) ==
    CASE gaps[1] = "a" ->
            \A i \in DOMAIN gaps[2] :
                /\ gaps[2][i][1] = "o"
                /\ Get(gaps[2][i], K_requirement, JStr(<<>>))[1] \in {"s", "a"}
      [] gaps[1] = "s" -> gaps[2] = <<>>
      [] gaps[1] = "o" -> DOMAIN gaps[2] = {}
      [] OTHER -> FALSE

\* result.get("error") is truthy (lines 1344, 1396)
ErrorTruthy(r) == HasError(r) /\ (r.error[1] # "" \/ r.error[2] # <<>>)

\* result.get("verdict", "UNKNOWN")
VerdictOf(r) ==
    IF "verdict" \in DOMAIN r THEN r.verdict ELSE JStr(<<"U", "N", "K", "N", "O", "W", "N">>)

GapsOf(r) == IF "gaps" \in DOMAIN r THEN r.gaps ELSE JArr(<<>>)
RawOf(r) == IF "raw" \in DOMAIN r THEN r.raw ELSE EmptyObj

\* lines 1348-1375: printing the review raises
ReviewPrintRaises(r) ==
    \/ ~GapsPrintable(GapsOf(r))
    \/ LET sc == Get(RawOf(r), K_scope_creep, None)
       IN  JTruthy(sc) /\ ~Iterable(sc)

\* lines 1400-1428: building the output raises
RagPrintRaises(r) ==
    \/ JTruthy(GapsOf(r)) /\ ~GapsPrintable(GapsOf(r))
    \/ LET ins == Get(RawOf(r), K_insights, JArr(<<>>))
       IN  JTruthy(ins) /\ ~Iterable(ins)

\* main has ended: the exit status and what the operator was told
Exited(m, status, what) ==
    [m EXCEPT !.pc = "exited", !.exit = status, !.reported = what]

MainInit ==
    /\ JudgeInit
    /\ lrn = LearnIdle
    /\ mn \in {[MainOff EXCEPT !.pc = "load_key", !.cmd = c, !.plan_exists = e] :
                  c \in ReviewCommands, e \in BOOLEAN}

\* load_api_key, lines 70-88
M_LoadApiKey ==
    /\ mn.pc = "load_key"
    /\ \E k \in BOOLEAN :
        /\ api_key' = k
        /\ mn' = IF k THEN [mn EXCEPT !.pc = "project"]
                  ELSE Exited(mn, 1, "api_key_not_found")
    /\ UNCHANGED <<pc, caller, db_exists, resp, response_text, finish_reason,
                   result, raised, requests, decoded, lrn, sent>>

\* get_project_id, lines 96-118: the project is found, or it is not, or
\* requests.get raises and the exception ends the process
M_GetProjectId ==
    /\ mn.pc = "project"
    /\ \E o \in {"found", "not_found", "raised"} :
        mn' = CASE o = "found" -> [mn EXCEPT !.pc = "dispatch"]
                [] o = "not_found" -> Exited(mn, 1, "project_not_found")
                [] o = "raised" -> Exited(mn, 1, "traceback")
    /\ UNCHANGED judgeVars
    /\ UNCHANGED lrn

\* --review, lines 1338-1341 and run_implementation_review, lines 994-1019:
\* a missing plan is an error result, otherwise review_implementation runs
M_Review ==
    /\ mn.pc = "dispatch"
    /\ mn.cmd = "review"
    /\ IF mn.plan_exists
       THEN /\ caller' = "review_implementation"
            /\ pc' = "read_key"
            /\ mn' = [mn EXCEPT !.pc = "judging"]
            /\ UNCHANGED result
       ELSE /\ result' = PlanNotFoundResult
            /\ mn' = [mn EXCEPT !.pc = "report"]
            /\ UNCHANGED <<pc, caller>>
    /\ UNCHANGED <<api_key, db_exists, resp, response_text, finish_reason,
                   raised, requests, decoded, lrn, sent>>

\* run_implementation_review, lines 1020-1023
M_ReviewReturn ==
    /\ mn.pc = "judging"
    /\ mn.cmd = "review"
    /\ pc = "returned"
    /\ result' = [plan_file |-> PlanPath, session_id |-> None] @@ result
    /\ mn' = [mn EXCEPT !.pc = "report"]
    /\ UNCHANGED <<pc, caller, api_key, db_exists, resp, response_text,
                   finish_reason, raised, requests, decoded, lrn, sent>>

\* --review, lines 1343-1381
M_ReportReview ==
    /\ mn.pc = "report"
    /\ mn.cmd = "review"
    /\ mn' = IF ErrorTruthy(result) THEN Exited(mn, 1, "error")
             ELSE IF ReviewPrintRaises(result) THEN Exited(mn, 1, "traceback")
             ELSE IF VerdictOf(result) = V_FAIL THEN Exited(mn, 1, "action_required")
             ELSE Exited(mn, 0, "ready_for")
    /\ UNCHANGED judgeVars
    /\ UNCHANGED lrn

\* --rag-judge, lines 1383-1393: a missing plan ends the process, otherwise
\* judge_plan_with_context runs
M_RagJudge ==
    /\ mn.pc = "dispatch"
    /\ mn.cmd = "rag_judge"
    /\ IF mn.plan_exists
       THEN /\ caller' = "judge_plan_with_context"
            /\ pc' = "check_db"
            /\ mn' = [mn EXCEPT !.pc = "judging"]
       ELSE /\ mn' = Exited(mn, 1, "plan_not_found")
            /\ UNCHANGED <<pc, caller>>
    /\ UNCHANGED <<api_key, db_exists, resp, response_text, finish_reason,
                   result, raised, requests, decoded, lrn, sent>>

\* --rag-judge, lines 1395-1453: the review file is written before the
\* verdict decides the exit status
M_ReportRag ==
    /\ mn.pc = "judging"
    /\ mn.cmd = "rag_judge"
    /\ pc = "returned"
    /\ mn' = IF ErrorTruthy(result) THEN Exited(mn, 1, "error")
             ELSE IF RagPrintRaises(result) THEN Exited(mn, 1, "traceback")
             ELSE IF VerdictOf(result) = V_FAIL
                  THEN [Exited(mn, 1, "revise_plan") EXCEPT !.files = @ + 1]
             ELSE [Exited(mn, 0, "ready_for") EXCEPT !.files = @ + 1]
    /\ UNCHANGED judgeVars
    /\ UNCHANGED lrn

\* an exception of the judge operation leaves asyncio.run and main
M_Uncaught ==
    /\ mn.pc = "judging"
    /\ pc = "raised"
    /\ mn' = Exited(mn, 1, "traceback")
    /\ UNCHANGED judgeVars
    /\ UNCHANGED lrn

MainNext ==
    \/ M_LoadApiKey
    \/ M_GetProjectId
    \/ M_Review
    \/ M_ReviewReturn
    \/ M_ReportReview
    \/ M_RagJudge
    \/ M_ReportRag
    \/ M_Uncaught
    \/ PipelineNext

SpecMain == MainInit /\ [][MainNext]_vars

------------------------------------------------------------------------------
(* get_hierarchical_context (lines 143-175) *)

K_ledger == <<"l", "e", "d", "g", "e", "r">>

\* what the query script can print, without the final line feed
QueryOutputs ==
    {<<>>,
     <<" ", " ">>,
     <<"n", "o", "t", " ", "j", "s", "o", "n">>,
     <<"{", "\"", "l", "e", "d", "g", "e", "r", "\"", ":">>,
     <<"[", "1", "]">>,
     <<"\"", "a", "b", "c", "\"">>,
     <<"5">>,
     <<"0">>,
     <<"n", "u", "l", "l">>,
     <<"[", "]">>,
     <<"{", "}">>,
     <<"\"", "\"">>,
     <<"{", "\"", "l", "e", "d", "g", "e", "r", "\"", ":", " ", "\"", "L", "\"", ",", " ", "\"", "i", "d", "\"", ":", " ", "7", "}">>,
     <<"{", "\"", "i", "d", "\"", ":", " ", "7", "}">>,
     <<"{", "\"", "l", "e", "d", "g", "e", "r", "\"", ":", " ", "n", "u", "l", "l", "}">>,
     <<"[", "{", "\"", "l", "e", "d", "g", "e", "r", "\"", ":", " ", "\"", "L", "\"", "}", "]">>}

\* result.stdout: the output as printed, or with a line feed after it
Stdouts == QueryOutputs \cup {o \o <<"\n">> : o \in QueryOutputs}

\* exit statuses of the subprocess
ReturnCodes == {0, 1, 2}

\* subprocess.run returns, or raises TimeoutExpired after 10 seconds, or
\* raises OSError when uv cannot be started
RunOutcomes == {"completed", "timeout", "oserror"}

BothNone == [handoff |-> None, ledger |-> None]

\* Usable without the test of the exit status
Usable_AnyStatus(returncode, stdout) == Strip(stdout) # <<>>

\* line 166: the output is read only after a zero exit status, and only
\* when it is more than whitespace
Usable(returncode, stdout) == returncode = 0 /\ Strip(stdout) # <<>>

\* lines 168-171: data.get("ledger") is evaluated for a truthy data and
\* raises AttributeError unless data is a dict
GetRaises(data) == JTruthy(data) /\ data[1] # "o"

\* lines 168-171
ContextOf(data) ==
    [handoff |-> IF JTruthy(data) THEN data ELSE None,
     ledger  |-> IF JTruthy(data) THEN Get(data, K_ledger, None) ELSE None]

CtxIdle ==
    [pc |-> "ctx_start", script_exists |-> FALSE, run |-> "none", returncode |-> 0,
     stdout |-> <<>>, printed |-> FALSE, ret |-> NoResult]

CtxInit == JudgeInit /\ mn = MainOff /\ lrn = CtxIdle

\* lines 151-155
Ctx_CheckScript ==
    /\ lrn.pc = "ctx_start"
    /\ \E e \in BOOLEAN :
        lrn' = IF e THEN [lrn EXCEPT !.script_exists = TRUE, !.pc = "ctx_run"]
               ELSE [lrn EXCEPT !.pc = "ctx_done", !.ret = BothNone]
    /\ UNCHANGED notLearnVars

\* lines 157-165 and 172-175: an exception of subprocess.run is caught,
\* printed, and the function returns the empty context
Ctx_Run ==
    /\ lrn.pc = "ctx_run"
    /\ \E o \in RunOutcomes :
        IF o = "completed"
        THEN \E c \in ReturnCodes, out \in Stdouts :
                lrn' = [lrn EXCEPT !.run = o, !.returncode = c, !.stdout = out,
                                   !.pc = "ctx_parse"]
        ELSE lrn' = [lrn EXCEPT !.run = o, !.printed = TRUE, !.ret = BothNone,
                                !.pc = "ctx_done"]
    /\ UNCHANGED notLearnVars

\* lines 166-175
Ctx_Parse ==
    /\ lrn.pc = "ctx_parse"
    /\ LET data == json_loads(lrn.stdout)
       IN  lrn' =
             IF Usable(lrn.returncode, lrn.stdout)
             THEN IF ~data.ok \/ GetRaises(data.v)
                  THEN [lrn EXCEPT !.printed = TRUE, !.ret = BothNone, !.pc = "ctx_done"]
                  ELSE [lrn EXCEPT !.ret = ContextOf(data.v), !.pc = "ctx_done"]
             ELSE [lrn EXCEPT !.ret = BothNone, !.pc = "ctx_done"]
    /\ UNCHANGED notLearnVars

CtxNext == Ctx_CheckScript \/ Ctx_Run \/ Ctx_Parse

SpecContext == CtxInit /\ [][CtxNext]_vars

------------------------------------------------------------------------------
(* run_scorers (lines 961-984): score_plan on each plan file of the day *)

\* plan files the glob of line 973 can find
MaxPlans == 3

\* what the request of one call can come back with
ScorerResponses ==
    {Exc(<<>>), Http(500, <<"U", "n", "a", "u", "t", "h", "o", "r", "i", "z", "e", "d">>), Json("no_choices"),
     Completion(FALSE, F_pass, "stop", <<>>),
     Completion(FALSE, F_fail, "stop", <<>>),
     Completion(FALSE, F_prose, "stop", <<>>)}

\* llm_judge, lines 776-831, as a function of the answer to its request
LlmJudgeResult(r) ==
    IF r.kind = "exception" THEN ExceptionResult(r.text)
    ELSE IF r.status # 200 THEN ApiErrorResult(r.text)
    ELSE IF BodyResult(r) # NoResult THEN BodyResult(r)
    ELSE IF r.data.shape = "bad_choice" THEN ExceptionResult(<<"'", "m", "e", "s", "s", "a", "g", "e", "'">>)
    ELSE IF IsTruncated(ContentOrEmpty(r.data), r.data.finish_reason)
         THEN TruncatedResult(r.data.usage)
    ELSE Extract(StripFence(ContentOrEmpty(r.data)))

\* the locals of one llm_judge invocation
NewCall(requested) == [sent |-> requested, resp |-> Exc(<<>>), result |-> NoResult]

\* i: the plan file the loop is at; flight: the calls whose request is
\* awaiting its answer; calls: the invocations of llm_judge so far
ScorersIdle ==
    [pc |-> "glob", key |-> FALSE, plans |-> 0, i |-> 1, flight |-> {},
     calls |-> <<>>, scores |-> <<>>]

ScorersInit == JudgeInit /\ lrn = LearnIdle /\ mn = ScorersIdle

\* lines 967-973: the plan files of today; the environment holds a key or not
Sc_Glob ==
    /\ mn.pc = "glob"
    /\ \E n \in 0..MaxPlans, k \in BOOLEAN :
        mn' = [mn EXCEPT !.plans = n, !.key = k, !.pc = "loop"]
    /\ UNCHANGED judgeVars
    /\ UNCHANGED lrn

\* the loop starting every call without awaiting the one before
Sc_ScorePlan_Gather ==
    /\ mn.pc = "loop"
    /\ mn.i <= mn.plans
    /\ mn' = [mn EXCEPT !.calls = Append(@, NewCall(TRUE)),
                         !.flight = @ \cup {mn.i},
                         !.i = @ + 1]
    /\ UNCHANGED judgeVars
    /\ UNCHANGED lrn

\* lines 973-975, 839 and 766-786: score_plan is awaited for the next plan
\* file; llm_judge returns at once without a key, or sends its request and
\* awaits the answer
Sc_ScorePlan ==
    /\ mn.pc = "loop"
    /\ mn.i <= mn.plans
    /\ mn' = IF mn.key
             THEN [mn EXCEPT !.calls = Append(@, NewCall(TRUE)),
                             !.flight = @ \cup {mn.i},
                             !.pc = "await"]
             ELSE [mn EXCEPT !.calls = Append(@, [NewCall(FALSE) EXCEPT !.result = NoKeyResult]),
                             !.pc = "call_returned"]
    /\ UNCHANGED judgeVars
    /\ UNCHANGED lrn

\* lines 787-831: the answer arrives and llm_judge returns
Sc_Respond ==
    /\ mn.pc = "await"
    /\ \E r \in ScorerResponses :
        mn' = [mn EXCEPT !.calls[mn.i].resp = r,
                         !.calls[mn.i].result = LlmJudgeResult(r),
                         !.flight = @ \ {mn.i},
                         !.pc = "call_returned"]
    /\ UNCHANGED judgeVars
    /\ UNCHANGED lrn

\* lines 840-841 and 976-977: the score is tagged and appended
Sc_Append ==
    /\ mn.pc = "call_returned"
    /\ mn' = [mn EXCEPT !.scores = Append(@, [file |-> mn.i] @@ WrapperFields("score_plan")
                                                @@ mn.calls[mn.i].result),
                         !.i = @ + 1,
                         !.pc = "loop"]
    /\ UNCHANGED judgeVars
    /\ UNCHANGED lrn

\* line 984
Sc_Return ==
    /\ mn.pc = "loop"
    /\ mn.i > mn.plans
    /\ mn' = [mn EXCEPT !.pc = "done"]
    /\ UNCHANGED judgeVars
    /\ UNCHANGED lrn

ScorersNext == Sc_Glob \/ Sc_ScorePlan \/ Sc_Respond \/ Sc_Append \/ Sc_Return

SpecScorers == ScorersInit /\ [][ScorersNext]_vars

-----------------------------------------------------------------------------
(* Properties *)


\* llm_judge has returned from the JSON extraction step
Decoded == pc = "llm_returned" /\ decoded

\* where a text has opening braces, and where closing ones
Opening(text) == {j \in 1..Len(text) : text[j] = "{"}
Closing(text) == {j \in 1..Len(text) : text[j] = "}"}

\* the first opening brace of a text, 0 when it has none
FirstOpen(text) == IF Opening(text) = {} THEN 0 ELSE FirstOf(Opening(text))

\* the closing braces at which as many braces have closed as have opened
\* since the first opening brace
ClosingIndices(text) ==
    LET O == Opening(text)
        C == Closing(text)
        s == FirstOf(O)
    IN  IF O = {} THEN {}
        ELSE {i \in C : /\ i > s
                        /\ Cardinality({j \in O : j <= i})
                             = Cardinality({j \in C : s < j /\ j <= i})}

\* the first depth-balanced fragment of a text that has one
FirstBalanced(text) == SubSeq(text, FirstOpen(text), FirstOf(ClosingIndices(text)))

\* the three ways the decoder cannot recover a JSON object: no opening
\* brace, no brace that balances it, a balanced fragment that is not JSON
DecodeFails(text) ==
    LET c == ClosingIndices(text)
    IN  \/ FirstOpen(text) = 0
        \/ c = {}
        \/ ~json_loads(SubSeq(text, FirstOpen(text), FirstOf(c))).ok

\* the quoted text is the first n characters of text, as many as text[:n]
IsSlice(quoted, text, n) ==
    /\ Len(quoted) = Min(n, Len(text))
    /\ quoted = SubSeq(text, 1, Len(quoted))

\* C1: when the working text has no '{', or the brace depth never returns to
\* zero, or the extracted substring is not valid JSON, llm_judge returns
\* verdict None with an error that quotes at most the first 200 characters
\* of the working text, and no exception leaves it.
C1_DecodeFailureQuotesWorkingText ==
    (Decoded /\ DecodeFails(response_text)) =>
        /\ ~raised
        /\ DOMAIN result = {"verdict", "error"}
        /\ result.verdict = None
        /\ result.error[1] = "Could not parse judge response: "
        /\ Len(result.error[2]) <= 200
        /\ IsSlice(result.error[2], response_text, 200)

\* json.loads leaves the first balanced fragment with an exception that is
\* not json.JSONDecodeError
LoadsRaisesOther(text) ==
    /\ ClosingIndices(text) # {}
    /\ json_loads(FirstBalanced(text)).exc = "RecursionError"

\* C1 as amended: on each of the three decode failures llm_judge returns
\* verdict None and an error field and nothing is raised; the error quotes at
\* most the first 200 characters of the working text, except where json.loads
\* fails with an exception other than JSONDecodeError, where it is at most
\* the first 100 characters of that exception's message.
C1_DecodeFailureIsErrorResult ==
    (Decoded /\ DecodeFails(response_text)) =>
        /\ ~raised
        /\ DOMAIN result = {"verdict", "error"}
        /\ result.verdict = None
        /\ IF LoadsRaisesOther(response_text)
           THEN /\ result.error[1] = ""
                /\ Len(result.error[2]) <= 100
                /\ IsSlice(result.error[2], RecursionMessage, 100)
           ELSE /\ result.error[1] = "Could not parse judge response: "
                /\ Len(result.error[2]) <= 200
                /\ IsSlice(result.error[2], response_text, 200)

\* C1 witness: an extracted substring that is not JSON, in a working text
\* longer than the snippet
C1_Witness ==
    /\ Decoded
    /\ ClosingIndices(response_text) # {}
    /\ ~json_loads(FirstBalanced(response_text)).ok
    /\ Len(response_text) > 200
    /\ HasError(result)

\* the completion step failed: transport exception, non-200 status, body
\* that is not JSON or not of the expected shape, no choices, empty content
CompletionFailed(r) ==
    \/ r.kind \in {"exception", "not_json"}
    \/ r.status # 200
    \/ r.data.shape \in Shapes
    \/ r.data.shape = "completion" /\ ContentOrEmpty(r.data) = <<>>

\* C2: after any failure of the completion step, llm_judge and the wrapper
\* that called it return a value with an error field, and nothing is raised.
C2_CompletionFailureIsErrorResult ==
    (requests > 0 /\ CompletionFailed(resp)) =>
        /\ ~raised
        /\ pc \in {"llm_returned", "returned"} =>
              /\ HasError(result)
              /\ result.verdict = None
        /\ pc = "returned" => result.scorer = WrapperFields(caller).scorer

\* C2 witness: a transport exception with an empty message, returned by a
\* wrapper
C2_Witness ==
    /\ pc = "returned"
    /\ requests > 0
    /\ resp.kind = "exception"
    /\ resp.text = <<>>
    /\ HasError(result)
    /\ caller = "review_implementation"

\* the answer is a completion with empty content and finish_reason "length"
TruncatedAnswer(r) ==
    /\ r.kind = "json"
    /\ r.data.shape = "completion"
    /\ r.data.null \/ r.data.content = <<>>
    /\ r.data.finish_reason = "length"

\* C3: an empty content with finish_reason "length" is reported as the
\* truncation error, with the usage counters, and the JSON extraction step
\* never runs on it.
C3_TruncationNeverDecoded ==
    (requests > 0 /\ TruncatedAnswer(resp)) =>
        /\ ~decoded
        /\ pc \notin {"strip_fence", "extract"}
        /\ pc = "llm_returned" =>
              /\ DOMAIN result = {"verdict", "error"}
              /\ result.verdict = None
              /\ result.error =
                    <<"Empty response (finish_reason: length). Usage: ", resp.data.usage>>

\* C3 witness: a null content cut at the length limit, with usage counters
C3_Witness ==
    /\ pc = "llm_returned"
    /\ requests > 0
    /\ TruncatedAnswer(resp)
    /\ resp.data.null
    /\ resp.data.usage # <<>>
    /\ HasError(result)

\* C4: a working text that starts with a well-formed JSON object O followed
\* by any trailing text is decoded to O: the scan extracts exactly the text
\* of O and the result keeps O.
C4_WellFormedObjectIsExtracted ==
    (/\ Decoded
     /\ Len(response_text) > 0
     /\ response_text[1] = "{"
     /\ ParseValue(response_text, 1, 1).ok) =>
        /\ Extracted(response_text) =
              SubSeq(response_text, 1, ParseValue(response_text, 1, 1).n - 1)
        /\ ~HasError(result)
        /\ result.raw = ParseValue(response_text, 1, 1).v

\* where the inner text of the first fence of a text starts: after the
\* fence, its optional json tag and whitespace; 0 when the text has no fence
InnerStart(text) ==
    LET S == {i \in 1..(Len(text) - 2) : SubSeq(text, i, i + 2) = Fence}
        i == FirstOf(S)
    IN  IF S = {} THEN 0
        ELSE SkipWs(text, IF IsJsonTag(text, i + 3) THEN i + 7 ELSE i + 3)

\* the first fence of a text wraps a well-formed JSON object
FenceWrapsObject(text) ==
    /\ InnerStart(text) # 0
    /\ InnerStart(text) <= Len(text)
    /\ text[InnerStart(text)] = "{"
    /\ ParseValue(text, InnerStart(text), 1).ok
    /\ LET e == SkipWs(text, ParseValue(text, InnerStart(text), 1).n)
       IN  e + 2 <= Len(text) /\ SubSeq(text, e, e + 2) = Fence

\* the object wrapped by the first fence
FencedObject(text) == ParseValue(text, InnerStart(text), 1).v

\* C5: a completion text whose first fence wraps a well-formed JSON object,
\* with any prose around the fence, is decoded to the verdict and gaps of
\* that object.
C5_FencedObjectIsDecoded ==
    (Decoded /\ FenceWrapsObject(resp.data.content)) =>
        /\ ~HasError(result)
        /\ result.verdict = Get(FencedObject(resp.data.content), K_verdict, None)
        /\ result.gaps = Get(FencedObject(resp.data.content), K_gaps, JArr(<<>>))

\* the working text has a depth-balanced fragment and a later opening brace
SeveralFragments(text) ==
    LET c == ClosingIndices(text)
    IN  c # {} /\ \E j \in Opening(text) : j > FirstOf(c)

\* C6: of several fragments only the first depth-balanced one is taken: the
\* result is what that fragment alone decodes to, and the text after it
\* changes neither the outcome nor the decoded object.
C6_OnlyFirstFragment ==
    (Decoded /\ SeveralFragments(response_text)) =>
        LET first == FirstBalanced(response_text)
            alone == Extract(first)
        IN  /\ HasError(result) <=> ~json_loads(first).ok
            /\ HasError(result) <=> HasError(alone)
            /\ ~HasError(result) =>
                  /\ result.raw = json_loads(first).v
                  /\ result = alone

\* C6 witness: a PASS object followed by a FAIL object
C6_Witness ==
    /\ Decoded
    /\ response_text = F_pass \o F_fail
    /\ ~HasError(result)
    /\ result.verdict = V_PASS

\* C7: a successful decode lifts verdict, gaps (default: empty list) and
\* summary (default: empty string) from the parsed object, keeps the whole
\* object as raw, and has no error field.
C7_SuccessLiftsFields ==
    (Decoded /\ ~HasError(result)) =>
        LET O == json_loads(FirstBalanced(response_text)).v
            keys == DOMAIN O[2]
        IN  /\ DOMAIN result = {"verdict", "gaps", "summary", "raw"}
            /\ result.verdict = (IF K_verdict \in keys THEN O[2][K_verdict] ELSE None)
            /\ result.gaps = (IF K_gaps \in keys THEN O[2][K_gaps] ELSE JArr(<<>>))
            /\ result.summary = (IF K_summary \in keys THEN O[2][K_summary] ELSE JStr(<<>>))
            /\ result.raw = O

\* C7 witness: an object with a summary and scope_creep and without gaps
C7_Witness ==
    /\ Decoded
    /\ ~HasError(result)
    /\ result.verdict = V_FAIL
    /\ result.gaps = JArr(<<>>)
    /\ result.summary = JStr(<<"s">>)
    /\ <<"s", "c", "o", "p", "e", "_", "c", "r", "e", "e", "p">> \in DOMAIN result.raw[2]
    /\ K_gaps \notin DOMAIN result.raw[2]

\* C8: the verdict llm_judge returns is PASS, FAIL or None, and it is None
\* exactly when the result carries an error field.
C8_VerdictAbsentIffError ==
    pc = "llm_returned" =>
        /\ result.verdict \in {V_PASS, V_FAIL, None}
        /\ result.verdict = None <=> HasError(result)

\* C9: the per-field budget lies within [MIN_PER_FIELD, MAX_PER_FIELD] for
\* every span count and every hierarchical-context length.
C9_BudgetWithinBounds ==
    lrn.pc = "planned" =>
        /\ lrn.per_field_budget >= 1500
        /\ lrn.per_field_budget <= 8000

\* C9 witness: a raw budget below the floor (1000 spans: 700000 \div 1500)
C9_Witness ==
    /\ lrn.pc = "planned"
    /\ lrn.span_count = 1000
    /\ lrn.hierarchical_chars = 0
    /\ lrn.per_field_budget = 1500

\* the trace loop of learn_from_session is over
Traced == lrn.pc = "trace" /\ lrn.i > Len(lrn.spans)

\* fields, hierarchical context and prompt template together
PromptChars == lrn.field_chars + lrn.hierarchical_chars + TemplateLen

\* C10: for every session, the truncated fields placed in the trace, the
\* hierarchical context and the prompt template together stay within
\* TOTAL_CHARS.
C10_TotalWithinCeiling == Traced => PromptChars <= 800000

\* C10 as amended: the total stays within TOTAL_CHARS for every session of
\* at most 200 spans that places no more fields than the estimate
\* int(1.5 * span_count) the budget is divided by.
C10_TotalWithinCeilingForEstimatedFields ==
    (Traced /\ lrn.span_count <= 200 /\ lrn.fields <= (3 * lrn.span_count) \div 2) =>
        PromptChars <= 800000

\* C10 witness: 200 spans, no more fields than estimated, every field
\* truncated (so each takes the budget and its marker)
C10_Witness ==
    /\ Traced
    /\ lrn.span_count = 200
    /\ lrn.fields > 0
    /\ lrn.fields <= (3 * lrn.span_count) \div 2
    /\ lrn.field_chars > lrn.fields * lrn.per_field_budget

\* the clamp of a value to [lo, hi]
Clamp(x, lo, hi) == IF x < lo THEN lo ELSE IF x > hi THEN hi ELSE x

\* the budget computation on the planner's inputs has returned
Planned == lrn.pc = "planned"

\* total_ceiling - reserve - hierarchical_context_length
Available == 800000 - 100000 - lrn.hierarchical_chars

\* floor(a / (1.5 * n)) for n > 0, the fields estimated as the number 1.5 * n
FloorByOneAndAHalf(a, n) == (2 * a) \div (3 * n)

\* C11: the per-field budget is clamp(floor(available / max(1, estimated_fields)),
\* 1500, 8000) with estimated_fields = 1.5 x span_count (for 10 spans and a
\* context of 5,000: available 695,000, 15 fields, raw 46,333, budget 8,000).
C11_BudgetFormula ==
    Planned =>
        /\ lrn.per_field_budget =
              Clamp(IF lrn.span_count = 0 THEN Available
                    ELSE FloorByOneAndAHalf(Available, lrn.span_count), 1500, 8000)
        /\ (lrn.span_count = 10 /\ lrn.hierarchical_chars = 5000) =>
              lrn.per_field_budget = 8000

\* q is the floor of a / d, for d > 0
IsFloorOfQuotient(q, a, d) == q * d <= a /\ a < (q + 1) * d

\* e is 1.5 * n rounded down
IsRoundedDown(e, n) == 2 * e <= 3 * n /\ 3 * n < 2 * e + 2

\* b is the clamp to [lo, hi] of the floor of a / d
IsClampedQuotient(b, a, d, lo, hi) ==
    \/ b = lo /\ a < (lo + 1) * d
    \/ b = hi /\ a >= hi * d
    \/ lo < b /\ b < hi /\ IsFloorOfQuotient(b, a, d)

\* C11 as amended: the per-field budget is
\* clamp(floor(available / max(1, estimated_fields)), 1500, 8000) with
\* estimated_fields = 1.5 x span_count rounded down to an integer.
C11_BudgetFormulaRoundedDown ==
    Planned =>
        \E e \in 0..(2 * lrn.span_count) :
            /\ IsRoundedDown(e, lrn.span_count)
            /\ IsClampedQuotient(lrn.per_field_budget, Available,
                                 IF e < 1 THEN 1 ELSE e, 1500, 8000)

\* C11 witness: the scenario of 10 spans and a context of 5,000 characters
C11_Witness ==
    /\ Planned
    /\ lrn.span_count = 10
    /\ lrn.hierarchical_chars = 5000
    /\ AVAILABLE_CHARS(lrn.hierarchical_chars) = 695000
    /\ estimated_fields(lrn.span_count) = 15
    /\ raw_budget(lrn.span_count, lrn.hierarchical_chars) = 46333
    /\ lrn.per_field_budget = 8000

\* C12: the budget computation does not divide by zero for any span count,
\* and for span_count = 0 it returns a value within [1500, 8000].
C12_NoDivisionByZero ==
    lrn.pc # "plan" =>
        /\ ~lrn.raised
        /\ Planned
        /\ lrn.span_count = 0 =>
              (lrn.per_field_budget >= 1500 /\ lrn.per_field_budget <= 8000)

\* C12 witness: no spans
C12_Witness ==
    /\ Planned
    /\ lrn.span_count = 0
    /\ lrn.hierarchical_chars = 0
    /\ lrn.per_field_budget = 8000

\* C13: the budget computation never fails, and a negative available gives
\* exactly the floor MIN_PER_FIELD, whatever the span count.
C13_NegativeAvailableGivesFloor ==
    lrn.pc # "plan" =>
        /\ ~lrn.raised
        /\ Available < 0 => lrn.per_field_budget = 1500

\* C13 witness: a context one character longer than ceiling minus reserve
C13_Witness ==
    /\ Planned
    /\ lrn.hierarchical_chars = 700001
    /\ lrn.span_count = 200
    /\ lrn.per_field_budget = 1500

\* clean has returned
Cleaned == lrn.pc = "cleaned"

\* the result of clean is the empty string
CleanedEmpty == lrn.cleaned.keep = 0 /\ lrn.cleaned.elided < 0

\* the result of clean is text[from : from + keep] without a marker
CleanedIsSlice(from, keep) ==
    /\ lrn.cleaned.keep = keep
    /\ keep > 0 => lrn.cleaned.from = from
    /\ lrn.cleaned.elided < 0

\* the result of clean is text[from : from + keep] and a marker naming elided
CleanedIsCut(from, keep, elided) ==
    /\ lrn.cleaned.from = from
    /\ lrn.cleaned.keep = keep
    /\ lrn.cleaned.elided = elided

\* the length of a text without its surrounding whitespace
StrippedLen(t) == TextLen(t) - t.lws - t.tws

\* C14: for every text longer than the budget, clean returns the first
\* budget characters of the text followed by a marker whose count is
\* original_length - budget.
C14_TruncationKeepsFirstBudgetChars ==
    (Cleaned /\ ~lrn.text.none /\ TextLen(lrn.text) > lrn.max_len) =>
        CleanedIsCut(0, lrn.max_len, TextLen(lrn.text) - lrn.max_len)

\* C14 as amended: for every text whose form without surrounding whitespace
\* is longer than the budget, clean returns the first budget characters of
\* that stripped form followed by a marker whose count is the stripped
\* length minus the budget.
C14_TruncationKeepsFirstBudgetCharsOfStripped ==
    (Cleaned /\ ~lrn.text.none /\ StrippedLen(lrn.text) > lrn.max_len) =>
        CleanedIsCut(lrn.text.lws, lrn.max_len, StrippedLen(lrn.text) - lrn.max_len)

\* C14 witness: a padded text cut to the budget
C14_Witness ==
    /\ Cleaned
    /\ lrn.text.lws > 0
    /\ lrn.text.tws > 0
    /\ StrippedLen(lrn.text) = lrn.max_len + 3
    /\ lrn.cleaned.elided = 3

\* C15: an empty or absent text gives the empty string, and a text of
\* length within the budget is passed through unchanged.
C15_ShortTextUnchanged ==
    Cleaned =>
        /\ (lrn.text.none \/ TextLen(lrn.text) = 0) => CleanedEmpty
        /\ (~lrn.text.none /\ TextLen(lrn.text) <= lrn.max_len) =>
              CleanedIsSlice(0, TextLen(lrn.text))

\* C15 as amended: an empty or absent text gives the empty string, and a
\* text of length within the budget is passed through with its surrounding
\* whitespace removed and no marker (unchanged when it has none).
C15_ShortTextStripped ==
    Cleaned =>
        /\ (lrn.text.none \/ TextLen(lrn.text) = 0) => CleanedEmpty
        /\ (~lrn.text.none /\ TextLen(lrn.text) <= lrn.max_len) =>
              CleanedIsSlice(lrn.text.lws, StrippedLen(lrn.text))

\* C15 witness: a text exactly as long as the budget, without padding
C15_Witness ==
    /\ Cleaned
    /\ TextLen(lrn.text) = lrn.max_len
    /\ lrn.text.lws = 0
    /\ lrn.text.tws = 0
    /\ lrn.cleaned = Kept(0, lrn.max_len, -1)

\* llm_judge is past session.post
PastPost == pc \in {"status", "body", "choice", "strip_fence", "extract"}

\* C16: an invocation that reaches the completion step sends exactly one
\* request, with temperature 0 and max_tokens 16000, and never a second
\* one: a failed, empty or malformed answer ends in one error result.
C16_OneRequestNoRetry ==
    /\ requests = Len(sent)
    /\ requests <= 1
    /\ \A i \in 1..Len(sent) : sent[i].temperature = 0 /\ sent[i].max_tokens = 16000
    /\ PastPost => requests = 1
    /\ (pc \in {"llm_returned", "returned"} /\ requests > 0 /\ CompletionFailed(resp)) =>
          (requests = 1 /\ HasError(result))

\* C16 witness: a non-200 answer, returned as an error after one request
C16_Witness ==
    /\ pc = "returned"
    /\ resp.kind = "http"
    /\ resp.status # 200
    /\ requests = 1
    /\ Len(sent) = 1
    /\ HasError(result)

\* a judge operation that got an answer to its request has returned
JudgeReturned == pc = "returned" /\ requests > 0

\* learn_from_session has returned after its request
LearnReturned == lrn.pc = "done" /\ lrn.requests > 0

\* the three wrappers of llm_judge: one request; the decoder runs on every
\* completion text; a failure of the request or of the decoding is a result
\* with an error field
WrappersArePipelines ==
    /\ requests <= 1
    /\ JudgeReturned =>
          /\ ~CompletionFailed(resp) => decoded
          /\ (CompletionFailed(resp) \/ DecodeFails(response_text)) => HasError(result)

MissingPlanExit ==
    /\ mn.pc = "exited"
    /\ mn.cmd \in ReviewCommands
    /\ ~mn.plan_exists

\* C18: when the plan file of --review or --rag-judge does not exist the
\* invocation is fatal: an error is reported, the exit status is not zero,
\* and no completion request was issued.
C18_MissingPlanIsFatal ==
    (mn.cmd \in ReviewCommands /\ ~mn.plan_exists) =>
        /\ requests = 0
        /\ sent = <<>>
        /\ mn.pc = "exited" =>
              /\ mn.exit # 0
              /\ mn.reported \in {"error", "plan_not_found", "api_key_not_found",
                                   "project_not_found", "traceback"}

\* C18 witness: --review ended on the error result for the missing plan
C18_Witness ==
    /\ MissingPlanExit
    /\ mn.cmd = "review"
    /\ mn.reported = "error"
    /\ result = PlanNotFoundResult
    /\ mn.exit = 1

\* json.dumps of a str: the quotes, backslashes and line feeds are escaped
RECURSIVE Escaped(_)
Escaped(chars) ==
    IF chars = <<>> THEN <<>>
    ELSE (CASE Head(chars) = "\"" -> <<"\\", "\"">>
            [] Head(chars) = "\\" -> <<"\\", "\\">>
            [] Head(chars) = "\n" -> <<"\\", "n">>
            [] OTHER -> <<Head(chars)>>) \o Escaped(Tail(chars))

Quoted(chars) == <<"\"">> \o Escaped(chars) \o <<"\"">>

RECURSIVE json_dumps(_), DumpItems(_, _), DumpMembers(_, _, _)

\* the items of a list from index i on, separated by ", "
DumpItems(values, i) ==
    IF i > Len(values) THEN <<>>
    ELSE (IF i > 1 THEN <<",", " ">> ELSE <<>>)
            \o json_dumps(values[i]) \o DumpItems(values, i + 1)

\* the members of a dict in insertion order from the i-th key on
DumpMembers(f, keys, i) ==
    IF i > Len(keys) THEN <<>>
    ELSE (IF i > 1 THEN <<",", " ">> ELSE <<>>)
            \o Quoted(keys[i]) \o <<":", " ">> \o json_dumps(f[keys[i]])
            \o DumpMembers(f, keys, i + 1)

\* json.dumps(v) with its default separators
json_dumps(v) ==
    CASE v[1] = "None" -> <<"n", "u", "l", "l">>
      [] v[1] = "s" -> Quoted(v[2])
      [] v[1] = "n" -> v[2]
      [] v[1] = "a" -> <<"[">> \o DumpItems(v[2], 1) \o <<"]">>
      [] v[1] = "o" -> <<"{">> \o DumpMembers(v[2], v[3], 1) \o <<"}">>

\* the decoder applied to a text
Decode(text) == Extract(StripFence(text))

\* C19: the decoder is idempotent: for every object R kept as raw by a
\* successful decode, decoding json.dumps(R) succeeds and its raw equals R.
C19_DecoderIdempotent ==
    (Decoded /\ ~HasError(result)) =>
        LET again == Decode(json_dumps(result.raw))
        IN  /\ ~HasError(again)
            /\ again.raw = result.raw

\* get_hierarchical_context has returned
CtxReturned == lrn.pc = "ctx_done"

\* the query gave nothing usable: no script, a subprocess that did not
\* complete or exited non-zero, no output, or output that is not a JSON
\* mapping
NoUsableContext ==
    \/ ~lrn.script_exists
    \/ lrn.run # "completed"
    \/ lrn.returncode # 0
    \/ Strip(lrn.stdout) = <<>>
    \/ ~json_loads(lrn.stdout).ok
    \/ json_loads(lrn.stdout).v[1] # "o"

WholeObject(text) ==
    /\ Len(Strip(text)) > 0
    /\ Strip(text)[1] = "{"
    /\ json_loads(text).ok

\* some string literal of the text holds more braces of one kind than of
\* the other
HasLoneBrace(text) ==
    LET Q == {j \in 1..Len(text) : text[j] = "\""}
    IN  \E q \in Q :
            /\ Cardinality({k \in Q : k < q}) % 2 = 0
            /\ \E e \in Q :
                /\ e > q
                /\ \A k \in Q : ~(q < k /\ k < e)
                /\ Cardinality({j \in (q + 1)..(e - 1) : text[j] = "{"})
                     # Cardinality({j \in (q + 1)..(e - 1) : text[j] = "}"})

\* the decoder met a valid object with a lone brace in a string
LoneBraceCase ==
    /\ Decoded
    /\ WholeObject(response_text)
    /\ HasLoneBrace(response_text)

\* C21: the scan counts the braces inside string literals, so for a valid
\* JSON object whose string value holds an unbalanced brace the scan ends
\* at the wrong position or never reaches depth zero, and llm_judge returns
\* the could-not-parse error result instead of the object.
C21_LoneBraceIsParseError ==
    LoneBraceCase =>
        /\ \/ ClosingIndices(response_text) = {}
           \/ FirstBalanced(response_text) # Strip(response_text)
        /\ HasError(result)
        /\ result.error[1] = "Could not parse judge response: "

\* the braces inside the string literals of a text
StringBraces(text, brace) ==
    {j \in 1..Len(text) :
        /\ text[j] = brace
        /\ Cardinality({k \in 1..j : text[k] = "\""}) % 2 = 1}

\* the string literals of the text hold, taken together, more braces of one
\* kind than of the other
StringsUnbalanced(text) ==
    Cardinality(StringBraces(text, "{")) # Cardinality(StringBraces(text, "}"))

\* C21 as amended: for a valid JSON object whose string values hold braces
\* that do not balance each other (a single value with a literal closing
\* brace, say) the scan ends at the wrong position or never reaches depth
\* zero, and llm_judge returns the could-not-parse error result; lone
\* braces of several values that cancel out leave the object decoded.
C21_UnbalancedStringsAreParseError ==
    (LoneBraceCase /\ StringsUnbalanced(response_text)) =>
        /\ \/ ClosingIndices(response_text) = {}
           \/ FirstBalanced(response_text) # Strip(response_text)
        /\ result = ParseErrorResult(response_text)

\* C21 witness: a value holding a closing brace ended the scan inside the
\* string, and the answer is the parse error
C21_Witness ==
    /\ LoneBraceCase
    /\ StringsUnbalanced(response_text)
    /\ response_text = F_brace_in_string
    /\ FirstBalanced(response_text) # response_text
    /\ result = ParseErrorResult(F_brace_in_string)

\* where three backquotes start in a text
FenceStarts(text) == {i \in 1..(Len(text) - 2) : SubSeq(text, i, i + 2) = Fence}

\* the text has an opening fence and, after its tag and whitespace, a
\* closing one
ClosedFence(text) ==
    /\ InnerStart(text) # 0
    /\ \E j \in FenceStarts(text) : j >= InnerStart(text)

\* the inner text of the first closed fence, without surrounding whitespace
FenceInner(text) ==
    LET close == FirstOf({j \in FenceStarts(text) : j >= InnerStart(text)})
    IN  Strip(SubSeq(text, InnerStart(text), close - 1))

\* the decoder has chosen its working text for a completion text
WorkingTextChosen == decoded /\ pc \in {"extract", "llm_returned", "returned"}

\* C22: with a closed fence in the completion text only the inner text of
\* the first fence is searched, so an object outside the fence is never
\* decoded; without a fence, or with an opening fence that is never
\* closed, the raw text is the working text.
C22_WorkingTextSelection ==
    WorkingTextChosen =>
        LET raw == ContentOrEmpty(resp.data)
        IN  IF ClosedFence(raw)
            THEN /\ response_text = FenceInner(raw)
                 /\ pc # "extract" =>
                       /\ Opening(FenceInner(raw)) = {} => HasError(result)
                       /\ ~HasError(result) =>
                             result.raw = json_loads(FirstBalanced(FenceInner(raw))).v
            ELSE response_text = raw

\* C22 witness: a valid object stands before a closed fence that holds
\* prose only, and the answer is the parse error
C22_Witness ==
    /\ WorkingTextChosen
    /\ pc = "llm_returned"
    /\ ContentOrEmpty(resp.data) = ObjectBeforeFence
    /\ response_text = Strip(F_prose)
    /\ HasError(result)

\* main has ended after the command got a result: from the judge operation,
\* or the error result for the missing plan
ExitedOnResult ==
    /\ mn.pc = "exited"
    /\ pc = "returned" \/ result = PlanNotFoundResult

\* C23: in --review and --rag-judge, main looks for an error before it
\* reads the verdict; the exit status is non-zero exactly when the result
\* carries an error or its verdict is "FAIL", and every other result ends
\* with status zero and the "Ready for" message.
C23_ExitStatusFollowsResult ==
    ExitedOnResult =>
        /\ mn.exit # 0 <=> (HasError(result) \/ VerdictOf(result) = V_FAIL)
        /\ mn.exit = 0 => mn.reported = "ready_for"
        /\ HasError(result) => mn.reported = "error"

\* --rag-judge has ended
RagExited == mn.pc = "exited" /\ mn.cmd = "rag_judge"

\* C24: --rag-judge writes its review file exactly when the judge result
\* carries no error: a FAIL verdict writes the file before the non-zero
\* exit, an error result or a missing plan writes none.
C24_ReviewFileIffNoError ==
    RagExited =>
        /\ mn.files <= 1
        /\ ExitedOnResult => (mn.files = 1 <=> ~HasError(result))
        /\ (ExitedOnResult /\ ~HasError(result) /\ VerdictOf(result) = V_FAIL) =>
              (mn.files = 1 /\ mn.exit # 0)
        /\ ~mn.plan_exists => mn.files = 0

\* run_scorers is running
ScorersRunning == mn.pc \in {"loop", "await", "call_returned", "done"}

\* what score_plan returns for the k-th plan file, from that call alone
ScoreOf(k) ==
    [file |-> k] @@ WrapperFields("score_plan")
        @@ (IF mn.calls[k].sent THEN LlmJudgeResult(mn.calls[k].resp) ELSE NoKeyResult)

\* C25: judge calls never run concurrently: at most one completion request
\* is in flight at any time, the loop of run_scorers goes on only after the
\* request it awaits has been answered, and each score depends on its own
\* call alone.
C25_NoConcurrentJudgeCalls ==
    ScorersRunning =>
        /\ Cardinality(mn.flight) <= 1
        /\ mn.flight # {} <=> mn.pc = "await"
        /\ mn.flight \subseteq {mn.i}
        /\ Len(mn.calls) \in {mn.i - 1, mn.i}
        /\ Len(mn.scores) = mn.i - 1
        /\ \A k \in DOMAIN mn.scores : mn.scores[k] = ScoreOf(k)

\* C25 witness: the second request is in flight, the first call is over
\* and scored
C25_Witness ==
    /\ mn.pc = "await"
    /\ mn.i = 2
    /\ mn.flight = {2}
    /\ Len(mn.scores) = 1
    /\ mn.calls[1].sent
    /\ ~HasError(mn.scores[1])

\* learn_from_session is over, by a return or by an exception
LearnOver == lrn.pc \in {"done", "raised"}

\* C26: learn_from_session writes a learnings file only after its request
\* came back with status 200 and a non-empty content, and at most one; on
\* every other path it returns without writing a file and without raising.
C26_FileOnlyAfterContent ==
    /\ lrn.files <= 1
    /\ lrn.files = 1 => (lrn.requests = 1 /\ lrn.outcome = "content")
    /\ (LearnOver /\ lrn.outcome # "content") =>
          /\ lrn.files = 0
          /\ ~lrn.raised
          /\ lrn.ret = ReturnedNone

\* learn_from_session has computed its budget
Budgeted == lrn.pc \in {"trace", "post"} \/ lrn.requests > 0

\* the longest hierarchical context: the capped handoff, goal and state,
\* their headers and the line feeds joining them
LongestContext == 20000 + 2000 + 3000 + 110

\* C27: in learn_from_session the hierarchical context is bounded, so
\* AVAILABLE_CHARS is positive; with at most 200 spans the raw budget is
\* above MIN_PER_FIELD, so the floor never sets the budget and only the cap
\* MAX_PER_FIELD can.
C27_FloorNeverActive ==
    Budgeted =>
        LET available == 800000 - 100000 - lrn.hierarchical_chars
            raw == available \div Max(1, (3 * lrn.span_count) \div 2)
        IN  /\ lrn.hierarchical_chars <= LongestContext
            /\ available > 0
            /\ lrn.span_count <= 200
            /\ raw > 1500
            /\ lrn.per_field_budget = Min(raw, 8000)
            /\ lrn.per_field_budget > 1500

\* C27 witness: 200 spans under the longest context, the lowest budget
\* there is (674,890 \div 300)
C27_Witness ==
    /\ Budgeted
    /\ lrn.span_count = 200
    /\ lrn.hierarchical_chars = LongestContext
    /\ lrn.per_field_budget = 2249

====
